---- MODULE Spec2Model ----
(***************************************************************************)
(* Payment-link lifecycle of adminPanelBackend: the sequence allocator     *)
(* (PaymentService.#generatePaymentId over getOption/setOption), the       *)
(* orchestrator (createPaymentLink / createPayoutLink), the webhook        *)
(* reconciler (handleWebhook / #updatePaymentLinkStatus) and the webhook   *)
(* endpoint (PaymentController.getPaymentDetails).                         *)
(*                                                                         *)
(* Strings of digits are sequences of digits, so that String(), parseInt() *)
(* and padStart() are computed and not assumed.  Instants are counted in   *)
(* half seconds; date() keeps whole seconds, as the format string does.    *)
(***************************************************************************)
EXTENDS Integers, Sequences, FiniteSets, TLC

\* ------------------------------------------------------------------ bounds
\* create requests (payment or payout) accepted during a run
MaxRequests == 3
\* payment links the gateway issues during a run
MaxLinks == 1

\* concurrent request handlers of the single Node process
Procs == {"r1", "r2"}

\* ------------------------------------------------------------ JS values
\* a nullable column or an absent value is the empty tuple, a value v is <<v>>
NULL == <<>>
\* `false` where a string was expected (a reference ID that was not allocated)
NoId == <<>>

\* ------------------------------------------------- utils/functions.js
RECURSIVE String(_)
\* String(n) of a non-negative integer: its decimal digits
String(n) == IF n < 10 THEN <<n>> ELSE Append(String(n \div 10), n % 10)

RECURSIVE parseInt(_)
\* parseInt of a string of decimal digits
parseInt(s) ==
    IF Len(s) = 0 THEN 0
    ELSE 10 * parseInt(SubSeq(s, 1, Len(s) - 1)) + s[Len(s)]

RECURSIVE padStart(_, _, _)
\* String.prototype.padStart: pads on the left up to length, never truncates
padStart(s, length, char) ==
    IF Len(s) >= length THEN s ELSE padStart(<<char>> \o s, length, char)

\* faulty variant: the number is not padded
stringPadNone(num, length, char) == String(num)

stringPad(num, length, char) == padStart(String(num), length, char)

\* faulty variant: the dateInput argument is dropped, the wall clock is formatted
dateOfNow(dateInput, clock) == [threw |-> FALSE, value |-> <<clock \div 2>>]

\* date("YYYY-MM-DD HH:mm:ss", dateInput): a falsy dateInput means the wall
\* clock (new Date()), an unparsable one throws 'Invalid date input', and the
\* format keeps whole seconds.  dateInput is [kind, at], kind one of
\* "missing", "invalid", "instant".
date(dateInput, clock) ==
    IF dateInput.kind = "invalid" THEN [threw |-> TRUE, value |-> NULL]
    ELSE LET now == IF dateInput.kind = "missing" THEN clock ELSE dateInput.at
         IN  [threw |-> FALSE, value |-> <<now \div 2>>]

\* ------------------------------------------- configuration (tblOptions)
\* optionValue of 'paymentLinkIdPrefix' (a JSON map linkType -> prefix)
paymentLinkIdPrefix == [invoice |-> "INV", advance |-> "ADV"]
\* optionValue of 'currentFinancialYear'
currentFinancialYear == "2425"
\* optionValue of 'cashfreeLinkStatusMap'
cashfreeLinkStatusMap ==
    [PAID |-> "1", PARTIALLY_PAID |-> "4", EXPIRED |-> "2", CANCELLED |-> "5"]
\* optionValue of 'paymentLinkNumber' when the service starts: the next
\* allocations cross from one digit to two
InitialLinkNumber == String(8)

\* linkType values a request body carries ("rent" has no configured prefix)
RequestLinkTypes == {"invoice", "rent"}
\* link_status values an event carries ("ACTIVE" is not a key of the map)
VendorStatuses == {"PAID", "PARTIALLY_PAID", "EXPIRED", "CANCELLED", "ACTIVE"}
\* instants in half seconds: the one every delivery of SpecHook carries, and
\* three that fall into two different seconds
Instants == {0}
LaterInstants == {0, 1, 2}
\* event_time values over a set of instants
EventTimes(instants) ==
    {[kind |-> "missing", at |-> 0], [kind |-> "invalid", at |-> 0]}
        \cup {[kind |-> "instant", at |-> t] : t \in instants}

\* --------------------------------------- PaymentService.#generatePaymentId
\* paymentLinkIdPrefix[linkType]: a missing key reads as undefined and is
\* concatenated as the text "undefined"
prefixOf(linkType) ==
    IF linkType \in DOMAIN paymentLinkIdPrefix
    THEN paymentLinkIdPrefix[linkType] ELSE "undefined"

\* prefix + '-' + currentFinancialYear + '-' + stringPad(parseInt(linkNumber) + 1, 6, '0'),
\* kept as its three '-'-separated parts
paymentIdOf(linkType, linkNumber) ==
    <<prefixOf(linkType), currentFinancialYear,
      stringPad(parseInt(linkNumber) + 1, 6, 0)>>

\* faulty variant: the counter is stored back without the increment
nextLinkNumberSame(linkNumber) == parseInt(linkNumber)

\* the value handed to setOption('paymentLinkNumber', ...)
nextLinkNumber(linkNumber) == parseInt(linkNumber) + 1

\* faulty variant: the update increments the stored value instead of overwriting it
setOptionIncrement(current, value) == String(parseInt(current) + 1)

\* setOption: UPDATE tblOptions SET optionValue = value; the stored text of
\* the row that held `current`
setOption(current, value) == String(value)

\* the numeric suffix of a reference ID
suffixOf(paymentId) == parseInt(paymentId[3])

\* ---------------------------------- PaymentService.#updatePaymentLinkStatus
\* faulty variant: a vendor status missing from the map falls back to CREATED
mappedStatusOrCreated(vendorStatus) ==
    IF vendorStatus \in DOMAIN cashfreeLinkStatusMap
    THEN <<cashfreeLinkStatusMap[vendorStatus]>> ELSE <<"0">>

\* JSON.parse(cashfreeLinkStatusMap)[vendorStatus]; <<>> is undefined
mappedStatus(vendorStatus) ==
    IF vendorStatus \in DOMAIN cashfreeLinkStatusMap
    THEN <<cashfreeLinkStatusMap[vendorStatus]>> ELSE <<>>

\* faulty variant: the PAID and EXPIRED cases are exchanged
timestampFieldExchanged(vendorStatus) ==
    CASE vendorStatus = "PAID" -> "linkExpiredAt"
      [] vendorStatus = "EXPIRED" -> "linkPaidAt"
      [] vendorStatus = "CANCELLED" -> "linkFailedAt"
      [] vendorStatus = "PARTIALLY_PAID" -> "linkFailedAt"
      [] OTHER -> "none"

\* the switch over linkConfig.linkStatus: the timestamp column it selects
timestampField(vendorStatus) ==
    CASE vendorStatus = "PAID" -> "linkPaidAt"
      [] vendorStatus = "EXPIRED" -> "linkExpiredAt"
      [] vendorStatus = "CANCELLED" -> "linkFailedAt"
      [] vendorStatus = "PARTIALLY_PAID" -> "linkFailedAt"
      [] OTHER -> "none"

\* faulty variant: the second condition is chained with orWhere
whereMatchesEither(row, linkConfig) ==
    \/ row.linkPgId = linkConfig.pgLinkId
    \/ row.linkIdFormatted = linkConfig.linkIdFormated

\* WHERE linkPgId = ? AND linkIdFormatted = ?
whereMatches(row, linkConfig) ==
    /\ row.linkPgId = linkConfig.pgLinkId
    /\ row.linkIdFormatted = linkConfig.linkIdFormated

\* faulty variant: a row that is PAID is left as it is
setColumnsUnlessPaid(row, linkStatus, field, value) ==
    IF row.linkStatus = "1" THEN row
    ELSE LET r == [row EXCEPT !.linkStatus = linkStatus]
         IN  IF field = "none" THEN r ELSE [r EXCEPT ![field] = value]

\* one row after UPDATE ... SET linkStatus = ?, <field> = ?
setColumns(row, linkStatus, field, value) ==
    LET r == [row EXCEPT !.linkStatus = linkStatus]
    IN  IF field = "none" THEN r ELSE [r EXCEPT ![field] = value]

\* faulty variant: an undefined status is bound as NULL and written
updateBindsNull(rows, linkConfig, linkStatus, field, value) ==
    LET status == IF linkStatus = <<>> THEN "NULL" ELSE linkStatus[1]
    IN  [threw |-> FALSE,
         rows |-> [i \in DOMAIN rows |->
                     IF whereMatches(rows[i], linkConfig)
                     THEN setColumns(rows[i], status, field, value)
                     ELSE rows[i]],
         affected |-> \E i \in DOMAIN rows : whereMatches(rows[i], linkConfig)]

\* faulty variant: an upsert, the row is inserted when none matches
updateOrInsert(rows, linkConfig, linkStatus, field, value) ==
    IF linkStatus = <<>>
    THEN [threw |-> TRUE, rows |-> rows, affected |-> FALSE]
    ELSE [threw |-> FALSE,
          rows |-> IF \E i \in DOMAIN rows : whereMatches(rows[i], linkConfig)
                   THEN [i \in DOMAIN rows |->
                           IF whereMatches(rows[i], linkConfig)
                           THEN setColumns(rows[i], linkStatus[1], field, value)
                           ELSE rows[i]]
                   ELSE Append(rows, setColumns(
                           [linkPgId |-> linkConfig.pgLinkId,
                            linkIdFormatted |-> linkConfig.linkIdFormated,
                            linkStatus |-> "0", linkPaidAt |-> NULL,
                            linkExpiredAt |-> NULL, linkFailedAt |-> NULL],
                           linkStatus[1], field, value)),
          affected |-> TRUE]

\* faulty variant: the WHERE clause is lost, every row is set
updateEveryRow(rows, linkConfig, linkStatus, field, value) ==
    IF linkStatus = <<>>
    THEN [threw |-> TRUE, rows |-> rows, affected |-> FALSE]
    ELSE [threw |-> FALSE,
          rows |-> [i \in DOMAIN rows |->
                      setColumns(rows[i], linkStatus[1], field, value)],
          affected |-> rows # <<>>]

\* MySQL.update through #execute: the driver rejects an undefined bind
\* parameter (the error is rethrown), otherwise every matching row is set
\* and the result is affectedRows > 0
update(rows, linkConfig, linkStatus, field, value) ==
    IF linkStatus = <<>>
    THEN [threw |-> TRUE, rows |-> rows, affected |-> FALSE]
    ELSE [threw |-> FALSE,
          rows |-> [i \in DOMAIN rows |->
                      IF whereMatches(rows[i], linkConfig)
                      THEN setColumns(rows[i], linkStatus[1], field, value)
                      ELSE rows[i]],
          affected |-> \E i \in DOMAIN rows : whereMatches(rows[i], linkConfig)]

\* the outcome of a service call on the PaymentLink table: the rows after
\* it, what it returned, whether it wrote an error log entry, whether an
\* exception left it, and the database operations it issued
Outcome(rows, result, logged, threw, db) ==
    [rows |-> rows, result |-> result, logged |-> logged, threw |-> threw,
     db |-> db]

updatePaymentLinkStatus(rows, linkConfig, clock) ==
    LET field == timestampField(linkConfig.linkStatus)
        stamp == IF field = "none" THEN [threw |-> FALSE, value |-> NULL]
                 ELSE date(linkConfig.eventTime, clock)
        upd == update(rows, linkConfig, mappedStatus(linkConfig.linkStatus),
                      field, stamp.value)
    IN  IF stamp.threw
        THEN Outcome(rows, "false", TRUE, FALSE, <<"connect", "getOption">>)
        ELSE IF upd.threw
        THEN Outcome(rows, "false", TRUE, FALSE,
                     <<"connect", "getOption", "update">>)
        ELSE Outcome(upd.rows, IF upd.affected THEN "true" ELSE "false",
                     FALSE, FALSE, <<"connect", "getOption", "update">>)

\* ------------------------------------------- PaymentService.handleWebhook
\* the properties read from the request body
linkConfigOf(data) ==
    [pgLinkId |-> data.cf_link_id, linkIdFormated |-> data.link_id,
     linkStatus |-> data.link_status, eventTime |-> data.event_time]

\* case 'PAYMENT_LINK_EVENT': reading a property of data.data throws when
\* the body carries no data object
linkEventCase(rows, data, clock) ==
    IF data.data = "undefined"
    THEN Outcome(rows, "none", FALSE, TRUE, <<>>)
    ELSE updatePaymentLinkStatus(rows, linkConfigOf(data), clock)

\* faulty variant: every type is reconciled (the case label is lost)
handleWebhookAnyType(rows, data, clock) ==
    LET outcome == linkEventCase(rows, data, clock)
    IN  IF outcome.threw
        THEN Outcome(rows, "false", TRUE, FALSE, outcome.db)
        ELSE outcome

\* faulty variant: the switch is not wrapped in try/catch
handleWebhookNoCatch(rows, data, clock) ==
    IF data.type = "PAYMENT_LINK_EVENT"
    THEN linkEventCase(rows, data, clock)
    ELSE Outcome(rows, "undefined", FALSE, FALSE, <<>>)

\* the switch has the one case and no default; whatever the case throws is
\* caught, logged and answered with false
handleWebhook(rows, data, clock) ==
    IF data.type = "PAYMENT_LINK_EVENT"
    THEN LET outcome == linkEventCase(rows, data, clock)
         IN  IF outcome.threw
             THEN Outcome(rows, "false", TRUE, FALSE, outcome.db)
             ELSE outcome
    ELSE Outcome(rows, "undefined", FALSE, FALSE, <<>>)

\* ------------------------------------------------------ gateway adapters
\* the adapters the active-gateway option selects
Gateways == {"razorpay", "cashfree"}

\* rupees asked for in a create request
Amount == 5

\* an object is the set of its property names and the values of the three
\* properties read further on; a property outside `keys` reads as undefined
Object(keys, linkId, linkIdFormatted, linkAmount) ==
    [keys |-> keys, linkId |-> linkId, linkIdFormatted |-> linkIdFormatted,
     linkAmount |-> linkAmount]

\* false: every property of it reads as undefined
NoLink == Object({}, 0, NoId, 0)

\* the request createPaymentLink hands to the adapter
requestOf(id) == [linkIdFormatted |-> id, linkAmount |-> Amount]

\* RazorpayConnector.createPaymentLink: the request sent to the provider
razorpayRequest(linkConfig) ==
    [reference_id |-> linkConfig.linkIdFormatted,
     amount |-> linkConfig.linkAmount * 100]

\* RazorpayConnector.createPaymentLink: the answer built from pgResponse,
\* which carries the provider's id and gives back reference_id and amount
razorpayCreatePaymentLink(linkConfig, id) ==
    LET pgResponse == [id |-> id,
                       reference_id |-> razorpayRequest(linkConfig).reference_id,
                       amount |-> razorpayRequest(linkConfig).amount]
    IN  Object({"linkId", "linkIdFormatted", "linkGateway", "linkUrl",
                "linkQr", "linkPurpose", "linkAmount"},
               pgResponse.id, pgResponse.reference_id, pgResponse.amount)

\* CashFree.createPaymentLink: response.data is returned as the provider
\* named its properties
cashfreeCreatePaymentLink(linkConfig, id) ==
    Object({"cf_link_id", "link_id", "link_url", "link_qrcode",
            "link_purpose", "link_amount"}, 0, NoId, 0)

\* paymentGateway.createPaymentLink of the adapter #setup loaded
adapterCreatePaymentLink(gateway, linkConfig, id) ==
    IF gateway = "razorpay"
    THEN razorpayCreatePaymentLink(linkConfig, id)
    ELSE cashfreeCreatePaymentLink(linkConfig, id)

\* faulty variant: setup failure is not looked at, the provider is called
adapterAfterSetupUnchecked(gateway, setupSuccess, linkConfig, id) ==
    [called |-> TRUE, threw |-> ~setupSuccess,
     value |-> IF setupSuccess
               THEN adapterCreatePaymentLink(gateway, linkConfig, id)
               ELSE NoLink]

\* createPaymentLink / createPayoutLink of an adapter: `if (!setupSuccess)
\* return false` stands before the try block that calls the provider
adapterAfterSetup(gateway, setupSuccess, linkConfig, id) ==
    IF setupSuccess
    THEN [called |-> TRUE, threw |-> FALSE,
          value |-> adapterCreatePaymentLink(gateway, linkConfig, id)]
    ELSE [called |-> FALSE, threw |-> FALSE, value |-> NoLink]

\* paymentGateway.createPayoutLink of the adapter #setup loaded.  CashFree
\* defines no createPayoutLink: calling it throws a TypeError.  Razorpay's
\* answers false when its setup fails or the provider refuses, and the
\* provider's response otherwise
adapterCreatePayoutLink(gateway, setupSuccess, accepted) ==
    IF gateway = "cashfree"
    THEN [called |-> FALSE, threw |-> TRUE, value |-> "false"]
    ELSE IF ~setupSuccess
         THEN [called |-> FALSE, threw |-> FALSE, value |-> "false"]
         ELSE [called |-> TRUE, threw |-> FALSE,
               value |-> IF accepted THEN "payout" ELSE "false"]

\* the connection an adapter's #setup leaves established: Razorpay's ends it
\* in `finally`, CashFree's never calls disconnect
setupConnection(gateway) == IF gateway = "razorpay" THEN {} ELSE {"adapter"}

\* this.db.connect() at the head of a service call: createPaymentLink awaits
\* it, createPayoutLink goes on without waiting for it
connectAwaited(kind) == kind = "payment"

\* the properties of paymentLink that linkDetails binds
BoundKeys == {"linkId", "linkIdFormatted", "linkGateway", "linkUrl", "linkQr",
              "linkPurpose", "linkAmount"}

\* faulty variant: an undefined value is bound as NULL
insertThrowsNever(paymentLink) == FALSE

\* MySQL.insert of linkDetails: connection.execute rejects a bind value
\* that is undefined
insertThrows(paymentLink) == ~(BoundKeys \subseteq paymentLink.keys)

\* ----------------------------------------------------- WhatsappService
\* getTemplateIdByName and sendTemplateMessage catch what they throw and
\* answer false; a template that was not found is sent to no one
sendTemplateMessage(templateFound, delivered) == templateFound /\ delivered

\* faulty variant: the answer of sendTemplateMessage decides the result
returnAfterNotifyChecked(sent) == IF sent THEN "link" ELSE "false"

\* createPaymentLink after the insert: the answer of sendTemplateMessage is
\* not read, paymentLink is returned
returnAfterNotify(sent) == "link"

\* --------------------------- PaymentController.createPaymentLink / Payout
\* res.status(200) whatever the service returned
createLinkStatus(value) == 200

\* --------------------------------- PaymentController.getPaymentDetails
\* res.status(200) follows the awaited handleWebhook; an exception leaving
\* handleWebhook would skip it and end in the error middleware
getPaymentDetails(outcome) == IF outcome.threw THEN 500 ELSE 200

\* ------------------------------------------------------------------ state
VARIABLES
    paymentLinkNumber,  \* tblOptions: optionValue of 'paymentLinkNumber' (text)
    links,              \* tblPaymentLinks, in insertion order
    pc,                 \* where each request handler stands
    kind,               \* "payment" (createPaymentLink) or "payout" (createPayoutLink)
    linkType,           \* the request's linkType
    linkNumber,         \* #generatePaymentId: the counter text it read
    paymentId,          \* the reference ID #generatePaymentId returned, or NoId
    paymentLink,        \* the adapter's result, NoLink before it
    result,             \* what the last service call of the handler returned
    started,            \* create requests accepted so far
    pgIssued,           \* payment links the gateway has issued so far
    whatsapp,           \* per request: "sent" or "failed" once the template message was tried
    lastSuffix,         \* history: per linkType, the numeric suffix last returned
    hook,               \* the last webhook call: event type, rows named, error
                        \* logged, database operations issued
    response,           \* the last HTTP status the webhook endpoint sent
    connection          \* per request: the MySQL connections its service call has
                        \* established and not ended ("service": PaymentService.db,
                        \* "adapter": the adapter's db)

vars == <<paymentLinkNumber, links, pc, kind, linkType, linkNumber, paymentId,
          paymentLink, result, started, pgIssued, whatsapp, lastSuffix, hook,
          response, connection>>

locals == <<kind, linkType, linkNumber, paymentId, paymentLink>>

Init ==
    /\ paymentLinkNumber = InitialLinkNumber
    /\ links = <<>>
    /\ pc = [p \in Procs |-> "idle"]
    /\ kind = [p \in Procs |-> "none"]
    /\ linkType = [p \in Procs |-> "none"]
    /\ linkNumber = [p \in Procs |-> <<>>]
    /\ paymentId = [p \in Procs |-> NoId]
    /\ paymentLink = [p \in Procs |-> NoLink]
    /\ result = [p \in Procs |-> "none"]
    /\ whatsapp = [p \in Procs |-> "none"]
    /\ started = 0
    /\ pgIssued = 0
    /\ lastSuffix = [t \in RequestLinkTypes |-> 0]
    /\ hook = [type |-> "none", matching |-> "none", logged |-> FALSE,
               db |-> <<>>]
    /\ response = <<>>
    /\ connection = [p \in Procs |-> {}]

\* the handler returns: its locals die with the call
Return(p, value) ==
    /\ pc' = [pc EXCEPT ![p] = "idle"]
    /\ result' = [result EXCEPT ![p] = value]
    /\ kind' = [kind EXCEPT ![p] = "none"]
    /\ linkType' = [linkType EXCEPT ![p] = "none"]
    /\ linkNumber' = [linkNumber EXCEPT ![p] = <<>>]
    /\ paymentId' = [paymentId EXCEPT ![p] = NoId]
    /\ paymentLink' = [paymentLink EXCEPT ![p] = NoLink]

\* --------------------------------- createPaymentLink / createPayoutLink
\* the controller calls the service: db.connect(), then #generatePaymentId
Start(p) ==
    /\ pc[p] = "idle"
    /\ started < MaxRequests
    /\ \E k \in {"payment", "payout"}, t \in RequestLinkTypes :
          /\ kind' = [kind EXCEPT ![p] = k]
          /\ linkType' = [linkType EXCEPT ![p] = t]
          /\ connection' = [connection EXCEPT ![p] =
                IF connectAwaited(k) THEN {"service"} ELSE {}]
    /\ pc' = [pc EXCEPT ![p] = "read"]
    /\ result' = [result EXCEPT ![p] = "none"]
    /\ whatsapp' = [whatsapp EXCEPT ![p] = "none"]
    /\ started' = started + 1
    /\ UNCHANGED <<paymentLinkNumber, links, linkNumber, paymentId,
                   paymentLink, pgIssued, lastSuffix, hook, response>>

\* #generatePaymentId: the three getOption reads
ReadCounter(p) ==
    /\ pc[p] = "read"
    /\ linkNumber' = [linkNumber EXCEPT ![p] = paymentLinkNumber]
    /\ pc' = [pc EXCEPT ![p] = "write"]
    /\ UNCHANGED <<paymentLinkNumber, links, kind, linkType, paymentId,
                   paymentLink, result, started, pgIssued, lastSuffix, whatsapp, hook,
                   response,
                   connection>>

\* #generatePaymentId: a getOption or setOption fails, the catch returns
\* false and the caller goes on with paymentId = false
AllocationFails(p) ==
    /\ pc[p] \in {"read", "write"}
    /\ paymentId' = [paymentId EXCEPT ![p] = NoId]
    /\ pc' = [pc EXCEPT ![p] = "gateway"]
    /\ UNCHANGED <<paymentLinkNumber, links, kind, linkType, linkNumber,
                   paymentLink, result, started, pgIssued, lastSuffix, whatsapp, hook,
                   response,
                   connection>>

\* #generatePaymentId: the ID is built, setOption stores the counter, the ID
\* is returned
WriteCounter(p) ==
    /\ pc[p] = "write"
    /\ paymentLinkNumber' =
          setOption(paymentLinkNumber, nextLinkNumber(linkNumber[p]))
    /\ paymentId' =
          [paymentId EXCEPT ![p] = paymentIdOf(linkType[p], linkNumber[p])]
    /\ lastSuffix' = [lastSuffix EXCEPT ![linkType[p]] =
          suffixOf(paymentIdOf(linkType[p], linkNumber[p]))]
    /\ pc' = [pc EXCEPT ![p] = "gateway"]
    /\ UNCHANGED <<links, kind, linkType, linkNumber, paymentLink, result,
                   started, pgIssued, whatsapp, hook, response,
                   connection>>

\* contact lookup and #setup succeed, the adapter finds its configuration
\* and the provider issues a link
GatewayCreates(p) ==
    /\ pc[p] = "gateway"
    /\ kind[p] = "payment"
    /\ pgIssued < MaxLinks
    /\ pgIssued' = pgIssued + 1
    /\ \E gateway \in Gateways :
          /\ paymentLink' = [paymentLink EXCEPT ![p] =
                adapterAfterSetup(gateway, TRUE, requestOf(paymentId[p]),
                                  pgIssued + 1).value]
          /\ connection' = [connection EXCEPT ![p] =
                connection[p] \cup setupConnection(gateway)]
    /\ pc' = [pc EXCEPT ![p] = "insert"]
    /\ UNCHANGED <<paymentLinkNumber, links, kind, linkType, linkNumber,
                   paymentId, result, started, whatsapp, lastSuffix, hook,
                   response>>

\* the adapter finds no active configuration (or the provider answers with
\* an error): it returns false, and createPaymentLink goes on to linkDetails
AdapterReturnsFalse(p) ==
    /\ pc[p] = "gateway"
    /\ kind[p] = "payment"
    /\ \E gateway \in Gateways :
          LET answer == adapterAfterSetup(gateway, FALSE,
                                          requestOf(paymentId[p]), pgIssued + 1)
          IN  /\ ~answer.threw
              /\ paymentLink' = [paymentLink EXCEPT ![p] = answer.value]
              /\ pgIssued' = IF answer.called /\ pgIssued < MaxLinks
                             THEN pgIssued + 1 ELSE pgIssued
              /\ connection' = [connection EXCEPT ![p] =
                    connection[p] \cup setupConnection(gateway)]
    /\ pc' = [pc EXCEPT ![p] = "insert"]
    /\ UNCHANGED <<paymentLinkNumber, links, kind, linkType, linkNumber,
                   paymentId, result, started, whatsapp, lastSuffix, hook,
                   response>>

\* the contact lookup throws (no such contact), or #setup loads no adapter
\* and the call on null throws: the catch returns false
GatewayFails(p) ==
    /\ pc[p] = "gateway"
    /\ kind[p] = "payment"
    /\ Return(p, "false")
    /\ UNCHANGED <<paymentLinkNumber, links, started, pgIssued, whatsapp,
                   lastSuffix, hook, response,
                   connection>>

\* faulty variant: the payout link is stored as a PaymentLink row
PayoutReturnsStored(p) ==
    /\ pc[p] = "gateway"
    /\ kind[p] = "payout"
    /\ links' = Append(links,
          [linkPgId |-> 0, linkIdFormatted |-> paymentId[p],
           linkStatus |-> "0",
           linkPaidAt |-> NULL, linkExpiredAt |-> NULL, linkFailedAt |-> NULL])
    /\ Return(p, "payout")
    /\ UNCHANGED <<paymentLinkNumber, started, pgIssued, whatsapp,
                   lastSuffix, hook, response, connection>>

\* createPayoutLink: the adapter's result is returned as it is; what the
\* call throws ends in the catch, which returns false
PayoutReturns(p) ==
    /\ pc[p] = "gateway"
    /\ kind[p] = "payout"
    /\ "service" \in connection[p]
    /\ \E gateway \in Gateways, setupSuccess \in BOOLEAN, accepted \in BOOLEAN :
          LET answer == adapterCreatePayoutLink(gateway, setupSuccess, accepted)
          IN  Return(p, IF answer.threw THEN "false" ELSE answer.value)
    /\ UNCHANGED <<paymentLinkNumber, links, started, pgIssued, whatsapp,
                   lastSuffix, hook, response,
                   connection>>

\* createPayoutLink: the connect() it did not wait for establishes the
\* connection at some moment of the call
ConnectResolves(p) ==
    /\ pc[p] \in {"read", "write", "gateway"}
    /\ ~connectAwaited(kind[p])
    /\ "service" \notin connection[p]
    /\ connection' = [connection EXCEPT ![p] = connection[p] \cup {"service"}]
    /\ UNCHANGED <<paymentLinkNumber, links, pc, locals, result, started,
                   pgIssued, whatsapp, lastSuffix, hook, response>>

\* createPayoutLink: the contact lookup runs while this.db.connection is
\* still null; #execute throws 'Database connection is not established' and
\* the catch returns false
LookupUnconnected(p) ==
    /\ pc[p] = "gateway"
    /\ "service" \notin connection[p]
    /\ Return(p, "false")
    /\ UNCHANGED <<paymentLinkNumber, links, started, pgIssued, whatsapp,
                   lastSuffix, hook, response, connection>>

\* db.table(TBL_PAYMENT_LINKS).insert(linkDetails)
InsertLink(p) ==
    /\ pc[p] = "insert"
    /\ ~insertThrows(paymentLink[p])
    /\ links' = Append(links,
          [linkPgId |-> paymentLink[p].linkId,
           linkIdFormatted |-> paymentLink[p].linkIdFormatted,
           linkStatus |-> "0",
           linkPaidAt |-> NULL, linkExpiredAt |-> NULL, linkFailedAt |-> NULL])
    /\ pc' = [pc EXCEPT ![p] = "notify"]
    /\ UNCHANGED <<paymentLinkNumber, locals, result, started, pgIssued,
                   whatsapp, lastSuffix, hook, response,
                   connection>>

\* the insert rejects linkDetails: the catch returns false
InsertThrows(p) ==
    /\ pc[p] = "insert"
    /\ insertThrows(paymentLink[p])
    /\ Return(p, "false")
    /\ UNCHANGED <<paymentLinkNumber, links, started, pgIssued, whatsapp,
                   lastSuffix, hook, response,
                   connection>>

\* the WhatsApp template message is tried, then paymentLink is returned
Notify(p) ==
    /\ pc[p] = "notify"
    /\ \E templateFound \in BOOLEAN, delivered \in BOOLEAN :
          LET sent == sendTemplateMessage(templateFound, delivered)
          IN  /\ whatsapp' = [whatsapp EXCEPT ![p] =
                                 IF sent THEN "sent" ELSE "failed"]
              /\ Return(p, returnAfterNotify(sent))
    /\ UNCHANGED <<paymentLinkNumber, links, started, pgIssued, lastSuffix,
                   hook, response,
                   connection>>

\* ------------------------------------------------ POST /payment (webhook)
\* a reference ID no allocation returns
ForeignId == <<"INV", currentFinancialYear, stringPad(0, 6, 0)>>

\* a request body
requestBody(type, pgLinkId, linkId, linkStatus, eventTime) ==
    [type |-> type, data |-> "object", cf_link_id |-> pgLinkId,
     link_id |-> linkId, link_status |-> linkStatus, event_time |-> eventTime]

\* a link event without its data object
Malformed ==
    [requestBody("PAYMENT_LINK_EVENT", 0, ForeignId, "PAID",
                 [kind |-> "instant", at |-> 0]) EXCEPT !.data = "undefined"]

\* every pairing of a gateway ID with a reference ID, the pairings that name
\* a stored row with both, and the others
Pairings ==
    (0..MaxLinks) \X ({links[i].linkIdFormatted : i \in DOMAIN links} \cup {ForeignId})
StoredPairings == {<<links[i].linkPgId, links[i].linkIdFormatted>> : i \in DOMAIN links}
UnknownPairings == Pairings \ StoredPairings

\* the link events with event_time over `instants`, for the pairings given
LinkEvents(pairings, instants) ==
    {requestBody("PAYMENT_LINK_EVENT", k[1], k[2], s, t) :
        k \in pairings, s \in VendorStatuses, t \in EventTimes(instants)}

\* events of another type
OtherEvents(pairings) ==
    {requestBody("PAYMENT_FAILED_WEBHOOK", k[1], k[2], "PAID", [kind |-> "instant", at |-> 0]) :
        k \in pairings}

\* the rows a request body names with both of its IDs, and with either
Stored(data) ==
    {i \in DOMAIN links : /\ links[i].linkPgId = data.cf_link_id
                          /\ links[i].linkIdFormatted = data.link_id}
HalfStored(data) ==
    {i \in DOMAIN links : \/ links[i].linkPgId = data.cf_link_id
                          \/ links[i].linkIdFormatted = data.link_id}
\* the links the gateway has issued to a createPaymentLink call that has not
\* inserted its row yet, by their two IDs
IssuedPairings ==
    {<<paymentLink[p].linkId, paymentLink[p].linkIdFormatted>> :
        p \in {q \in Procs : pc[q] = "insert" /\ ~insertThrows(paymentLink[q])}}
Matching(data) ==
    IF Stored(data) # {} THEN "both"
    ELSE IF <<data.cf_link_id, data.link_id>> \in IssuedPairings THEN "issued"
    ELSE IF HalfStored(data) # {} THEN "one" ELSE "none"

\* the request bodies delivered.  For a stored link: every status at the
\* first instant, and a PAID event for every other event_time (the status
\* decides nothing about how event_time is read).  For every other pairing
\* of IDs, which changes no row whatever it carries: a PAID event.  One
\* event of another type for every stored link and for the foreign pairing,
\* and the link event without a data object.
Deliveries(instants) ==
    {requestBody("PAYMENT_LINK_EVENT", k[1], k[2], s, [kind |-> "instant", at |-> 0]) :
        k \in StoredPairings, s \in VendorStatuses}
    \cup {requestBody("PAYMENT_LINK_EVENT", k[1], k[2], "PAID", t) :
            k \in StoredPairings, t \in EventTimes(instants)}
    \cup {requestBody("PAYMENT_LINK_EVENT", k[1], k[2], "PAID", [kind |-> "instant", at |-> 0]) :
            k \in UnknownPairings \cup IssuedPairings}
    \cup OtherEvents(StoredPairings \cup {<<0, ForeignId>>})
    \cup {Malformed}

\* the wall clock is read only when the event carries no event_time
Clocks(data, instants) ==
    IF data.event_time.kind = "missing" THEN instants ELSE {0}

\* POST /payment with a body whose event_time and wall clock lie in `instants`
Deliver(instants) ==
    \E data \in Deliveries(instants) :
      \E clock \in Clocks(data, instants) :
        LET outcome == handleWebhook(links, data, clock)
        IN  /\ links' = outcome.rows
            /\ hook' = [type |-> data.type, matching |-> Matching(data),
                        logged |-> outcome.logged, db |-> outcome.db]
            /\ response' = <<getPaymentDetails(outcome)>>
            /\ UNCHANGED <<paymentLinkNumber, pc, locals, result, started,
                           pgIssued, whatsapp, lastSuffix,
                   connection>>

GetPaymentDetails == Deliver(Instants)

\* createPaymentLink after #generatePaymentId
PaymentLinkSteps(p) ==
    \/ GatewayCreates(p)
    \/ AdapterReturnsFalse(p)
    \/ GatewayFails(p)
    \/ InsertLink(p)
    \/ InsertThrows(p)
    \/ Notify(p)

\* createPayoutLink after #generatePaymentId, and its pending connect()
PayoutLinkSteps(p) ==
    \/ PayoutReturns(p)
    \/ ConnectResolves(p)
    \/ LookupUnconnected(p)

\* what a request handler does once it has read the counter
AfterRead(p) ==
    \/ AllocationFails(p)
    \/ WriteCounter(p)
    \/ PaymentLinkSteps(p)
    \/ PayoutLinkSteps(p)

\* one step of the request handler p
Step(p) ==
    \/ Start(p)
    \/ ReadCounter(p)
    \/ AfterRead(p)

\* the whole service: concurrent create requests and webhook deliveries
Next ==
    \/ \E p \in Procs : Step(p)
    \/ GetPaymentDetails

Spec == Init /\ [][Next]_vars

\* the create requests alone, running concurrently
AllocNext == \E p \in Procs : Step(p)

SpecAlloc == Init /\ [][AllocNext]_vars

\* no other #generatePaymentId call stands between its read and its write
Alone(p) == \A q \in Procs \ {p} : pc[q] # "write"

\* serialized access to the allocator: a call reads the counter only when
\* it is alone
SerialNext ==
    \E p \in Procs :
        \/ Start(p)
        \/ ReadCounter(p) /\ Alone(p)
        \/ AfterRead(p)

SpecSerial == Init /\ [][SerialNext]_vars

\* one request handler taking as many createPaymentLink requests as the
\* gateway issues links, all of a configured link type and with the
\* allocator's configuration readable (the reconciler reads nothing of the
\* link type, and a payout stores no row)
Creates ==
    \/ /\ Start("r1")
       /\ started' <= MaxLinks
       /\ linkType'["r1"] # "rent"
       /\ kind'["r1"] = "payment"
    \/ ReadCounter("r1")
    \/ WriteCounter("r1")
    \/ PaymentLinkSteps("r1")

\* webhook deliveries to the links so created
HookNext ==
    \/ Creates
    \/ GetPaymentDetails

SpecHook == Init /\ [][HookNext]_vars

\* the same, with deliveries spread over more than one second
StampNext ==
    \/ Creates
    \/ Deliver(LaterInstants)

SpecStamp == Init /\ [][StampNext]_vars

\* ============================================================== claims
\* a handler that holds a reference ID its #generatePaymentId call returned
HoldsId(p) == pc[p] \in {"gateway", "insert", "notify"} /\ paymentId[p] # NoId

\* C1: under serialized access, the numeric suffix of every reference ID a
\* successful #generatePaymentId call returns is strictly greater than the
\* suffix of the ID last returned for the same linkType (hence, by induction,
\* than that of every earlier one, and all of them are pairwise distinct).
C1_SuffixStrictlyIncreasing ==
    [][\A p \in Procs :
          (pc[p] = "write" /\ pc'[p] = "gateway" /\ paymentId'[p] # NoId) =>
              suffixOf(paymentId'[p]) > lastSuffix[linkType[p]]]_vars

\* two successful allocations for "invoice" have been made, one after the other
C1_Witness ==
    /\ lastSuffix["invoice"] = parseInt(InitialLinkNumber) + 2
    /\ lastSuffix["rent"] = 0

\* C2: when two concurrent requests both hold a reference ID built from the
\* same counter value (each read it before the other wrote back), their IDs
\* carry the same number, are the same linkIdFormatted for the same linkType,
\* and the stored counter stands one above the value read, not two.
C2_LostUpdate ==
    \A p, q \in Procs :
        (p # q /\ HoldsId(p) /\ HoldsId(q) /\ linkNumber[p] = linkNumber[q]) =>
            /\ suffixOf(paymentId[p]) = suffixOf(paymentId[q])
            /\ linkType[p] = linkType[q] => paymentId[p] = paymentId[q]
            /\ parseInt(paymentLinkNumber) = parseInt(linkNumber[p]) + 1

\* two createPaymentLink requests hold the same linkIdFormatted
C2_Witness ==
    \E p, q \in Procs :
        /\ p # q /\ HoldsId(p) /\ HoldsId(q)
        /\ kind[p] = "payment" /\ kind[q] = "payment"
        /\ linkNumber[p] = linkNumber[q]
        /\ paymentId[p] = paymentId[q]
        /\ parseInt(paymentLinkNumber) = parseInt(linkNumber[p]) + 1

\* C3: the stored paymentLinkNumber never decreases, whatever the
\* interleaving of the allocations.
C3_CounterNeverDecreases ==
    [][parseInt(paymentLinkNumber') >= parseInt(paymentLinkNumber)]_vars

TimestampFields == {"linkPaidAt", "linkExpiredAt", "linkFailedAt"}

\* C4: every PaymentLink that has left CREATED(0) has exactly one of
\* linkPaidAt, linkExpiredAt, linkFailedAt non-null.
C4_ExactlyOneTimestamp ==
    \A i \in DOMAIN links :
        links[i].linkStatus # "0" =>
            Cardinality({f \in TimestampFields : links[i][f] # NULL}) = 1

\* C5: with the configured status map, no step takes a link that has left
\* CREATED(0) back to CREATED(0).
C5_NeverBackToCreated ==
    [][\A i \in DOMAIN links :
          links[i].linkStatus # "0" => links'[i].linkStatus # "0"]_vars

\* a link that left CREATED has been reconciled again: two of its timestamps
\* are set and the last delivery named it
C5_Witness ==
    \E i \in DOMAIN links :
        /\ links[i].linkStatus # "0"
        /\ Cardinality({f \in TimestampFields : links[i][f] # NULL}) >= 2
        /\ hook.matching = "both"

\* C6: once a timestamp field of a PaymentLink is non-null, no later webhook
\* event changes its value.
C6_TimestampsSetOnce ==
    [][\A i \in DOMAIN links : \A f \in TimestampFields :
          links[i][f] # NULL => links'[i][f] = links[i][f]]_vars

\* the table after the event is handled at instant first, and after it is
\* handled again at instant second
AppliedOnce(data, first) == handleWebhook(links, data, first).rows
AppliedTwice(data, first, second) ==
    handleWebhook(AppliedOnce(data, first), data, second).rows

C8_UnknownLinkIsNoOp ==
    \A data \in LinkEvents(UnknownPairings, Instants) :
        \A clock \in Clocks(data, Instants) :
            LET outcome == handleWebhook(links, data, clock)
            IN  outcome.rows = links /\ ~outcome.threw

\* an event that matches a stored row in one of the two IDs only has been handled
C8_Witness ==
    /\ links # <<>>
    /\ hook.type = "PAYMENT_LINK_EVENT"
    /\ hook.matching = "one"
    /\ ~hook.logged

\* C9: for a type other than PAYMENT_LINK_EVENT, handleWebhook issues no
\* database operation (so neither a row nor a configuration value changes),
\* logs no error and throws nothing.
C9_OtherTypeIsNoOp ==
    \A data \in OtherEvents(Pairings) :
        LET outcome == handleWebhook(links, data, 0)
        IN  /\ outcome.db = <<>>
            /\ outcome.rows = links
            /\ ~outcome.logged
            /\ ~outcome.threw

\* an event of another type that names a stored link has been handled
C9_Witness ==
    /\ hook.type = "PAYMENT_FAILED_WEBHOOK"
    /\ hook.matching = "both"
    /\ \E i \in DOMAIN links : links[i].linkStatus = "0"

\* C10: whatever handleWebhook did, the endpoint has answered 200.
C10_AlwaysAnswers200 == response = <<>> \/ response = <<200>>

\* the endpoint answered 200 after an exception inside the reconciler
C10_Witness ==
    /\ response = <<200>>
    /\ hook.type = "PAYMENT_LINK_EVENT"
    /\ hook.logged

\* request p leaves the insert step in this transition
LeavesInsert(p) == pc[p] = "insert" /\ pc'[p] # "insert"

\* C11: when the adapter's createPaymentLink returned false, createPaymentLink
\* returns false, inserts no row, tries no notification and leaves the
\* counter as the allocation stored it.
C11_AdapterFalseFailsCreate ==
    [][\A p \in Procs :
          (LeavesInsert(p) /\ paymentLink[p] = NoLink) =>
              /\ pc'[p] = "idle"
              /\ result'[p] = "false"
              /\ links' = links
              /\ whatsapp'[p] = "none"
              /\ paymentLinkNumber' = paymentLinkNumber]_vars

\* an ID was allocated and stored, and the adapter has returned false
C11_Witness ==
    \E p \in Procs :
        /\ pc[p] = "insert"
        /\ paymentLink[p] = NoLink
        /\ paymentId[p] # NoId
        /\ parseInt(paymentLinkNumber) = suffixOf(paymentId[p])
        /\ parseInt(paymentLinkNumber) > parseInt(InitialLinkNumber)

\* C12: a createPaymentLink invocation inserts at most one row; when the
\* adapter returned a link it inserts exactly one, with linkStatus "0"; no
\* step removes a row.
C12_OneRowPerCreatedLink ==
    [][/\ Len(links') >= Len(links)
       /\ \A i \in DOMAIN links :
             /\ links'[i].linkPgId = links[i].linkPgId
             /\ links'[i].linkIdFormatted = links[i].linkIdFormatted
       /\ Len(links') > Len(links) =>
             /\ Len(links') = Len(links) + 1
             /\ \E p \in Procs : pc[p] = "insert" /\ pc'[p] = "notify"
       /\ \A p \in Procs :
             (LeavesInsert(p) /\ paymentLink[p] # NoLink) =>
                 /\ Len(links') = Len(links) + 1
                 /\ links'[Len(links')].linkStatus = "0"]_vars

\* C13: for a linkType without a configured prefix the allocator returns
\* false and leaves paymentLinkNumber as it was.
C13_UnconfiguredTypeFails ==
    [][\A p \in Procs :
          (/\ pc[p] = "write"
           /\ pc'[p] = "gateway"
           /\ linkType[p] \notin DOMAIN paymentLinkIdPrefix) =>
              /\ paymentId'[p] = NoId
              /\ paymentLinkNumber' = paymentLinkNumber]_vars

\* C14: with the counter at c and a configured linkType, a successful
\* allocation returns <<prefix, year, c + 1 as six digits>> and stores c + 1;
\* prefix INV, year 2425 and counter 41 give INV-2425-000042 and 42.
C14_AllocatedIdAndCounter ==
    [][/\ \A p \in Procs :
             (/\ pc[p] = "write"
              /\ pc'[p] = "gateway"
              /\ paymentId'[p] # NoId
              /\ linkType[p] = "invoice") =>
                 /\ Len(paymentId'[p]) = 3
                 /\ paymentId'[p][1] = "INV"
                 /\ paymentId'[p][2] = "2425"
                 /\ Len(paymentId'[p][3]) = 6
                 /\ parseInt(paymentId'[p][3]) = parseInt(paymentLinkNumber) + 1
                 /\ parseInt(paymentLinkNumber') = parseInt(paymentLinkNumber) + 1
       /\ paymentIdOf("invoice", <<4, 1>>) = <<"INV", "2425", <<0, 0, 0, 0, 4, 2>>>>
       /\ setOption(<<4, 1>>, nextLinkNumber(<<4, 1>>)) = <<4, 2>>]_vars

\* two allocations for invoices have stored the counter one after the other
C14_Witness ==
    /\ lastSuffix["invoice"] = parseInt(InitialLinkNumber) + 2
    /\ parseInt(paymentLinkNumber) = parseInt(InitialLinkNumber) + 2
    /\ \E p \in Procs : HoldsId(p) /\ suffixOf(paymentId[p]) = lastSuffix["invoice"]

\* the timestamp column C15 names for a vendor status
NamedColumn ==
    [PAID |-> "linkPaidAt", EXPIRED |-> "linkExpiredAt",
     CANCELLED |-> "linkFailedAt"]

\* the second an event handled at instant `clock` is stamped with
StampOf(data, clock) ==
    IF data.event_time.kind = "missing"
    THEN <<clock \div 2>> ELSE <<data.event_time.at \div 2>>

\* row `after` is row `before` reconciled with the event: the mapped status,
\* the stamp in one timestamp column (the named one), the others as before
Reconciled(before, after, data, clock) ==
    /\ after.linkStatus = cashfreeLinkStatusMap[data.link_status]
    /\ \E f \in TimestampFields :
          /\ after[f] = StampOf(data, clock)
          /\ \A g \in TimestampFields \ {f} : after[g] = before[g]
          /\ data.link_status \in DOMAIN NamedColumn =>
                f = NamedColumn[data.link_status]

\* every stored row the event names is reconciled by handleWebhook
ReconciledBy(data) ==
    \A clock \in Clocks(data, LaterInstants) : \A i \in Stored(data) :
        Reconciled(links[i], handleWebhook(links, data, clock).rows[i],
                   data, clock)

\* C15 as stated: for a matching row and a vendor status of the map,
\* handleWebhook sets the mapped linkStatus and writes the one timestamp
\* column that matches the status, leaving the other two as they were.
C15_StatusAndOneTimestamp ==
    \A data \in LinkEvents(StoredPairings, LaterInstants) :
        data.link_status \in DOMAIN cashfreeLinkStatusMap => ReconciledBy(data)

\* C15 amended: the same, for events whose event_time is absent or can be
\* parsed as a date.
C15_StatusAndOneTimestampParsed ==
    \A data \in LinkEvents(StoredPairings, LaterInstants) :
        (/\ data.link_status \in DOMAIN cashfreeLinkStatusMap
         /\ data.event_time.kind # "invalid") => ReconciledBy(data)

\* a PAID event was applied to a CREATED link: status 1, linkPaidAt set, the
\* other two timestamps still null
C15_Witness ==
    /\ hook.type = "PAYMENT_LINK_EVENT" /\ hook.matching = "both"
    /\ ~hook.logged
    /\ \E i \in DOMAIN links :
          /\ links[i].linkStatus = "1"
          /\ links[i].linkPaidAt = <<0>>
          /\ links[i].linkExpiredAt = NULL
          /\ links[i].linkFailedAt = NULL

\* C16: whether or not the WhatsApp message was sent, createPaymentLink
\* returns the link once the row is inserted, and the rows stay as they are.
C16_NotificationFailureKeepsLink ==
    [][\A p \in Procs :
          (pc[p] = "notify" /\ pc'[p] = "idle") =>
              /\ result'[p] = "link"
              /\ links' = links
              /\ \E i \in DOMAIN links' :
                    /\ links'[i].linkPgId = paymentLink[p].linkId
                    /\ links'[i].linkStatus = "0"]_vars

\* the message failed, the call returned the link, its row is stored
C16_Witness ==
    \E p \in Procs :
        /\ whatsapp[p] = "failed"
        /\ result[p] = "link"
        /\ links # <<>>
        /\ \A i \in DOMAIN links : links[i].linkStatus = "0"

\* C17: a create request whose service call returned false is answered with
\* 500, and 200 is sent only when a link result was produced.
C17_FailureAnswered500 ==
    \A p \in Procs :
        result[p] # "none" =>
            createLinkStatus(result[p]) = IF result[p] = "false" THEN 500 ELSE 200

\* C18: a create request in which a configuration read failed ends with the
\* service returning false.
C18_FailureEndsInFalse ==
    [][\A p \in Procs :
          (/\ pc[p] \in {"gateway", "insert", "notify"}
           /\ paymentId[p] = NoId
           /\ pc'[p] = "idle") => result'[p] = "false"]_vars

CanonicalKeys == {"linkId", "linkIdFormatted", "linkGateway", "linkUrl", "linkAmount"}

\* C20: the result an adapter returns for a link the provider issued has
\* the five canonical properties, and its linkAmount is the amount asked for.
C20_CanonicalResult ==
    \A p \in Procs :
        (pc[p] = "insert" /\ paymentLink[p] # NoLink) =>
            /\ CanonicalKeys \subseteq paymentLink[p].keys
            /\ paymentLink[p].linkAmount = Amount

\* C21: the orchestrator is agnostic to the active gateway: with a reference
\* ID allocated and an adapter whose setup succeeds and whose provider
\* accepts the request, createPaymentLink stores its row and createPayoutLink
\* returns the adapter's result, whichever of the two adapters is active.
C21_GatewayAgnostic ==
    \A p \in Procs :
        (pc[p] = "gateway" /\ paymentId[p] # NoId) =>
            /\ kind[p] = "payment" =>
                  \A gateway \in Gateways :
                      ~insertThrows(adapterAfterSetup(gateway, TRUE,
                          requestOf(paymentId[p]), pgIssued + 1).value)
            /\ kind[p] = "payout" =>
                  \A gateway \in Gateways :
                      adapterCreatePayoutLink(gateway, TRUE, TRUE) =
                          [called |-> TRUE, threw |-> FALSE, value |-> "payout"]

\* the columns of a row that no UPDATE of the service names
Inserted(row) == <<row.linkPgId, row.linkIdFormatted>>

C23_ConnectionsReleased ==
    \A p \in Procs : pc[p] = "idle" => connection[p] = {}

\* C30: createPayoutLink issues its contact lookup only on an established
\* connection: no call that consumed a sequence number ends in the lookup
\* failing because this.db.connection is still unset.
C30_LookupOnEstablishedConnection ==
    [][\A p \in Procs :
          (kind[p] = "payout" /\ pc[p] = "gateway" /\ pc'[p] = "idle"
              /\ paymentId[p] # NoId) =>
                 "service" \in connection[p]]_vars

\* C24: createPaymentLink invokes the gateway adapter only with a reference
\* ID that #generatePaymentId allocated: a request whose configuration read
\* failed never gets as far as the adapter's answer.
C24_AdapterOnlyAfterAllocation ==
    \A p \in Procs :
        (kind[p] = "payment" /\ pc[p] \in {"insert", "notify"}) =>
            paymentId[p] # NoId

\* C25: whenever the UPDATE of a PAYMENT_LINK_EVENT is executed and matches
\* no PaymentLink row, handleWebhook writes a log entry for the miss, and
\* no exception leaves it.
C25_MissIsLogged ==
    \A data \in LinkEvents(UnknownPairings, Instants) :
        \A clock \in Clocks(data, Instants) :
            LET outcome == handleWebhook(links, data, clock)
            IN  (outcome.db = <<"connect", "getOption", "update">>
                    /\ mappedStatus(data.link_status) # <<>>) =>
                        outcome.logged /\ ~outcome.threw

\* the events of a recognized vendor status, stamped at the first instant,
\* for the stored links
RecognizedEvents ==
    {requestBody("PAYMENT_LINK_EVENT", k[1], k[2], s, [kind |-> "instant", at |-> 0]) :
        k \in StoredPairings, s \in DOMAIN cashfreeLinkStatusMap}

\* C26: the reconciler has no guard on the stored status: whatever linkStatus
\* a matching row has, an event of a recognized vendor status overwrites it
\* with the status mapped from the event (a PAID link that receives EXPIRED
\* ends EXPIRED).
C26_NoGuardOnStoredStatus ==
    \A data \in RecognizedEvents :
        LET after == handleWebhook(links, data, 0).rows
        IN  \A i \in Stored(data) :
                after[i].linkStatus = cashfreeLinkStatusMap[data.link_status]

\* a link that was PAID has received an EXPIRED event and is now EXPIRED
C26_Witness ==
    \E i \in DOMAIN links :
        /\ links[i].linkStatus = cashfreeLinkStatusMap["EXPIRED"]
        /\ links[i].linkPaidAt # NULL
        /\ links[i].linkExpiredAt # NULL
        /\ links[i].linkFailedAt = NULL
        /\ hook.matching = "both" /\ ~hook.logged

\* the events of a vendor status that cashfreeLinkStatusMap does not know,
\* for the stored links
UnrecognizedEvents ==
    {requestBody("PAYMENT_LINK_EVENT", k[1], k[2], s, t) :
        k \in StoredPairings, s \in VendorStatuses \ DOMAIN cashfreeLinkStatusMap,
        t \in EventTimes(Instants)}

\* C27 as stated: for a vendor status outside cashfreeLinkStatusMap the mapped
\* status is undefined, no timestamp field is selected, and the matching
\* row's linkStatus is overwritten.
C27_UnmappedStatusOverwrites ==
    \A data \in UnrecognizedEvents :
        /\ mappedStatus(data.link_status) = <<>>
        /\ timestampField(data.link_status) = "none"
        /\ \A clock \in Clocks(data, Instants) : \A i \in Stored(data) :
              handleWebhook(links, data, clock).rows[i].linkStatus
                  # links[i].linkStatus

\* C27 amended: the mapped status is undefined, no timestamp field is
\* selected, and the UPDATE is issued but rejected for its undefined bind
\* value: the error is logged, handleWebhook answers false and every row
\* stays as it was.
C27_UnmappedStatusRejected ==
    \A data \in UnrecognizedEvents :
        /\ mappedStatus(data.link_status) = <<>>
        /\ timestampField(data.link_status) = "none"
        /\ \A clock \in Clocks(data, Instants) :
              LET outcome == handleWebhook(links, data, clock)
              IN  /\ outcome.db = <<"connect", "getOption", "update">>
                  /\ outcome.rows = links
                  /\ outcome.logged /\ ~outcome.threw
                  /\ outcome.result = "false"

\* an event of an unrecognized status has been delivered for a stored link:
\* the UPDATE was issued, an error was logged, the link is still CREATED
C27_Witness ==
    /\ hook.type = "PAYMENT_LINK_EVENT" /\ hook.matching = "both"
    /\ hook.logged
    /\ hook.db = <<"connect", "getOption", "update">>
    /\ \E i \in DOMAIN links : links[i].linkStatus = "0"

\* C28: createPayoutLink allocates its reference ID from the counter it
\* shares with payment links, storing the counter it read plus one; it
\* returns what the adapter's createPayoutLink answered (false when the call
\* failed); and no step of it inserts, updates or deletes a PaymentLink row.
C28_PayoutStoresNothing ==
    [][\A p \in Procs :
          (kind[p] = "payout" /\ pc'[p] # pc[p]) =>
              /\ links' = links
              /\ (pc[p] = "write" /\ paymentId'[p] # NoId) =>
                    /\ parseInt(paymentLinkNumber') = parseInt(linkNumber[p]) + 1
                    /\ paymentId'[p] = paymentIdOf(linkType[p], linkNumber[p])
              /\ pc'[p] = "idle" =>
                    \/ result'[p] = "false"
                    \/ \E gateway \in Gateways :
                          result'[p] =
                              adapterCreatePayoutLink(gateway, TRUE, TRUE).value]_vars

\* a payout request has taken the first sequence number and returned the
\* adapter's result, and the table is as empty as before
C28_Witness ==
    \E p \in Procs :
        /\ pc[p] = "idle" /\ result[p] = "payout"
        /\ parseInt(paymentLinkNumber) = parseInt(InitialLinkNumber) + 1
        /\ links = <<>>

\* the events of a recognized vendor status for the link the gateway issued
\* to the call p
IssuedEvents(p) ==
    {requestBody("PAYMENT_LINK_EVENT", paymentLink[p].linkId,
                 paymentLink[p].linkIdFormatted, s,
                 [kind |-> "instant", at |-> 0]) :
        s \in DOMAIN cashfreeLinkStatusMap}

\* C29: while createPaymentLink holds a link the gateway has issued and has
\* not inserted its row, an event for that link matches no row: it changes
\* nothing, is answered false without an error, and is kept nowhere; the
\* insert that follows stores the row as CREATED(0) with no timestamp, also
\* when such an event was the last one handled.
C29_EarlyEventIsDropped ==
    [][\A p \in Procs :
          (pc[p] = "insert" /\ ~insertThrows(paymentLink[p])) =>
              /\ \A data \in IssuedEvents(p) :
                    LET outcome == handleWebhook(links, data, 0)
                    IN  /\ outcome.rows = links
                        /\ outcome.result = "false"
                        /\ ~outcome.logged /\ ~outcome.threw
              /\ pc'[p] = "notify" =>
                    /\ Len(links') = Len(links) + 1
                    /\ links'[Len(links')].linkStatus = "0"
                    /\ \A f \in TimestampFields : links'[Len(links')][f] = NULL
                    /\ hook' = hook]_vars

\* an event for an issued link was handled before its row existed, and the
\* row has since been inserted: it is CREATED and no delivery followed
C29_Witness ==
    /\ hook.type = "PAYMENT_LINK_EVENT" /\ hook.matching = "issued"
    /\ links # <<>>
    /\ links[Len(links)].linkStatus = "0"
    /\ \A f \in TimestampFields : links[Len(links)][f] = NULL

====
